---- MODULE Spec2Model ----
(***************************************************************************)
(* Model of fynesse/address.py: predict_price (adaptive sampling loop,     *)
(* property-type fallback, leave-one-out filter, POI features, GLM fit)    *)
(* and evaluate_model, with the collaborators of fynesse/access.py and     *)
(* fynesse/assess.py that they call.                                       *)
(*                                                                         *)
(* Python values are modelled with their dynamic type: a float is a        *)
(* rational Num(n, d), a datetime is Date(day), None is NoneV.  Operations *)
(* that Python rejects for a type (datetime / int) raise TypeError.        *)
(***************************************************************************)
EXTENDS Integers, Sequences, FiniteSets, TLC

(* ---------------- bounds of the model ---------------- *)
MaxInitial == 2      \* bbox_size_initial ranges over 1..MaxInitial
MaxLimit == 4        \* bbox_size_limit ranges over 1..MaxLimit
MaxReq == 2          \* required_sample_size ranges over 0..MaxReq
MaxIter == 5         \* cap on loop iterations explored for non-terminating configurations
MaxVal == 2          \* validation_df has 1..MaxVal rows
NumRecords == 2      \* transactions known to the transaction source
MaxPoi == 1          \* a POI download returns 0..MaxPoi geometries
FeatMaxPoi == 2      \* POI sets handed to the feature functions have 0..FeatMaxPoi rows
MaxCoord == 2        \* coordinates handed to the feature functions are Point(0..MaxCoord)

(* ---------------- dynamically typed values ---------------- *)
NoneV == [k |-> "none"]
Num(n, d) == [k |-> "num", n |-> n, d |-> d]
Date(t) == [k |-> "date", day |-> t]
Str(s) == [k |-> "str", s |-> s]
IsNum(v) == v.k = "num"
IsDate(v) == v.k = "date"

\* float arithmetic on rationals with positive denominators
Mul(a, b) == Num(a.n * b.n, a.d * b.d)
Gt(a, b) == a.n * b.d > b.n * a.d
Eq(a, b) == IsNum(a) /\ IsNum(b) /\ a.n * b.d = b.n * a.d
Times2(a) == Num(a.n * 2, a.d)
Half(a) == Num(a.n, a.d * 2)
Add(a, b) == Num(a.n * b.d + b.n * a.d, a.d * b.d)
Sub(a, b) == Num(a.n * b.d - b.n * a.d, a.d * b.d)
Sq(a) == Num(a.n * a.n, a.d * a.d)
DivInt(a, n) == Num(a.n, a.d * n)
Times111(a) == Num(a.n * 111, a.d)
Ge0(a) == a.n >= 0
\* Python's min(a, b): b only when it is smaller
Min(a, b) == IF Gt(a, b) THEN b ELSE a

\* math.sqrt; the coordinates of the model lie on a line of slope 4/3, so
\* that every squared distance is the square of a rational
ISqrt(q) == CHOOSE r \in 0..q : r * r = q
Sqrt(a) == Num(ISqrt(a.n), ISqrt(a.d))

\* the k-th location of the model: (3k, 4k) degrees
Point(k) == [y |-> Num(3 * k, 1), x |-> Num(4 * k, 1)]

(* ---------------- the transaction source ---------------- *)
\* rows of pp_data joined with postcode_data; db_id is the primary key
TransRecord(i) ==
    [db_id |-> i, price |-> 100 * i,
     lattitude |-> Point(i).y, longitude |-> Point(i).x,
     date_of_transfer |-> Date(100),
     property_type |-> IF i % 3 = 0 THEN "D" ELSE "F"]

Ids == 1..NumRecords

\* the rows with ids in S, in table order
RECURSIVE RowsOf(_, _)
RowsOf(S, i) ==
    IF i > NumRecords THEN <<>>
    ELSE (IF i \in S THEN <<TransRecord(i)>> ELSE <<>>) \o RowsOf(S, i + 1)

IdsOf(df) == {df[i].db_id : i \in 1..Len(df)}


\* every result set the source may hand back for a filter: any rows of the
\* table (the bbox and the date window are decided by the database), all of
\* the requested property type when one is given
MatchingIds(ptype) ==
    {i \in Ids : ptype = NoneV \/ ptype = Str(TransRecord(i).property_type)}

QueryResults(ptype) == {RowsOf(S, 1) : S \in SUBSET MatchingIds(ptype)}

\* get_joined_transactions up to the point where the SQL text is built:
\* "ok" when the query reaches the database, else the exception raised
get_joined_transactions(q) ==
    IF q.latitude # NoneV /\ q.box_height = NoneV THEN "RuntimeError"
    ELSE IF q.longitude # NoneV /\ q.box_width = NoneV THEN "RuntimeError"
    ELSE IF q.latitude # NoneV /\ ~(IsNum(q.latitude) /\ IsNum(q.box_height)) THEN "TypeError"
    ELSE IF q.longitude # NoneV /\ ~(IsNum(q.longitude) /\ IsNum(q.box_width)) THEN "TypeError"
    ELSE IF ~IsDate(q.start_date) \/ ~IsDate(q.end_date) THEN "AttributeError"
    ELSE "ok"

(* ---------------- configuration ---------------- *)
\* increase_factor values: 1 is not growth, 3/2 and 2 are
Factors == {Num(1, 1), Num(3, 2), Num(2, 1)}

\* args["features"]: feature name -> tags and methods
FeatureConfigs ==
    { <<[name |-> "school", tags |-> "amenity", methods |-> <<"cnt", "avg_dist">>],
        [name |-> "shop", tags |-> "shop", methods |-> <<"cnt", "shortest_dist">>]>> }

ArgsSet ==
    [bbox_size_initial : {Num(i, 1) : i \in 1..MaxInitial},
     bbox_size_limit : {Num(i, 1) : i \in 1..MaxLimit},
     increase_factor : Factors,
     required_sample_size : 0..MaxReq,
     time_range : {7},
     features : FeatureConfigs]

ModelNames == {"poisson", "gaussian", "ridge"}

\* validation sets: rows of the transaction table, no row twice
ValidationSets ==
    {s \in UNION {[1..n -> Ids] : n \in 1..MaxVal} :
        \A i, j \in DOMAIN s : i # j => s[i] # s[j]}

ValidationRows(s) == [i \in DOMAIN s |-> TransRecord(s[i])]

(* ---------------- points of interest (assess.py) ---------------- *)
\* the geometries OpenStreetMap knows, by centroid; each of them is tagged
\* both as an amenity and as a shop
PoiRecord(k) == Point(k)

\* the first n of them
PoisOf(n) == [k \in 1..n |-> PoiRecord(k)]

\* pois.columns of the frame ox.geometries_from_bbox returns for these rows
OsmColumns(rows) ==
    IF Len(rows) = 0 THEN {} ELSE {"name", "geometry", "amenity", "shop"}

\* the list object that is the default of parameter `columns` (line 146)
DefaultColumns == <<"name", "addr:city", "addr:postcode", "addr:street", "geometry">>

Contains(seq, e) == \E i \in DOMAIN seq : seq[i] = e

\* lines 158-160: the key of `tags` is appended to the list when missing
AppendTags(cols, tags) == IF Contains(cols, tags) THEN cols ELSE Append(cols, tags)

\* line 161
present_columns(cols, rows) == SelectSeq(cols, LAMBDA key : key \in OsmColumns(rows))

\* lines 155-163, given the rows OpenStreetMap returned: the frame returned
download_POI_around_coordinate(cols, rows, tags) ==
    [rows |-> rows, columns |-> present_columns(AppendTags(cols, tags), rows)]

(* ---------------- feature functions (assess.py) ---------------- *)
Returned(v) == [k |-> "return", v |-> v]
Raised(type) == [k |-> "raise", type |-> type]

\* lines 91-94, 112-115, 132-135
Distance(lat, lon, poi) ==
    Sqrt(Add(Sq(Sub(lat, poi.y)), Sq(Sub(lon, poi.x))))

RECURSIVE AvgLoop(_, _, _, _, _, _)
\* lines 89-97: total_dis after the rows from i on
AvgLoop(lat, lon, rows, threshold, i, total_dis) ==
    IF i > Len(rows) THEN total_dis
    ELSE LET dis == Distance(lat, lon, rows[i])
         IN  IF Gt(dis, threshold)
             THEN AvgLoop(lat, lon, rows, threshold, i + 1, total_dis)
             ELSE AvgLoop(lat, lon, rows, threshold, i + 1, Add(total_dis, dis))

\* lines 80-98
get_average_distance_to_POI(lat, lon, pois, threshold) ==
    IF Len(pois.rows) = 0 THEN Raised("ZeroDivisionError")
    ELSE Returned(Times111(DivInt(AvgLoop(lat, lon, pois.rows, threshold, 1, Num(0, 1)),
                                  Len(pois.rows))))

RECURSIVE CntLoop(_, _, _, _, _, _)
\* lines 110-117: cnt after the rows from i on
CntLoop(lat, lon, rows, threshold, i, cnt) ==
    IF i > Len(rows) THEN cnt
    ELSE IF Gt(Distance(lat, lon, rows[i]), threshold)
         THEN CntLoop(lat, lon, rows, threshold, i + 1, cnt)
         ELSE CntLoop(lat, lon, rows, threshold, i + 1, cnt + 1)

\* lines 101-118
get_cnt_of_POI(lat, lon, pois, threshold) ==
    Returned(Num(CntLoop(lat, lon, pois.rows, threshold, 1, 0), 1))

RECURSIVE ShortestLoop(_, _, _, _, _)
\* lines 131-136: shortest_dist after the rows from i on
ShortestLoop(lat, lon, rows, i, shortest_dist) ==
    IF i > Len(rows) THEN shortest_dist
    ELSE ShortestLoop(lat, lon, rows, i + 1, Min(shortest_dist, Distance(lat, lon, rows[i])))

\* a value above every distance of the model
Far == Num(1000, 1)

\* the minimum is taken from no start value
get_shortest_distance_to_POI_NoClamp(lat, lon, pois, threshold) ==
    Returned(Times111(ShortestLoop(lat, lon, pois.rows, 1, Far)))

\* lines 121-137
get_shortest_distance_to_POI(lat, lon, pois, threshold) ==
    Returned(Times111(ShortestLoop(lat, lon, pois.rows, 1, threshold)))

Methods == {"cnt", "avg_dist", "shortest_dist"}

\* lines 281-286: the function a method name selects, applied
feature_fn(method_name, lat, lon, pois, threshold) ==
    IF method_name = "cnt" THEN get_cnt_of_POI(lat, lon, pois, threshold)
    ELSE IF method_name = "avg_dist" THEN get_average_distance_to_POI(lat, lon, pois, threshold)
    ELSE get_shortest_distance_to_POI(lat, lon, pois, threshold)

(* ---------------- state ---------------- *)
VARIABLES
    args, model_name, caller, validation_df,          \* inputs
    row_idx, real_price_ls, predicted_price_ls,       \* evaluate_model
    latitude, longitude, date, property_type, df_filter,   \* predict_price parameters
    start_date, end_date, bbox_size, transaction_df,  \* predict_price locals
    feature_bbox_size, dist_threshold, pois_map, df, observed_df, design,
    calls,          \* invocations of get_joined_transactions by this predict_price call,
                    \* each with whether it returned the required number of rows
    last_rows,      \* the rows the transaction source returned to the latest of them
    poi_calls,      \* invocations of download_POI_around_coordinate by this call
    prefilter_df,   \* transaction_df as it was when df_filter was reached
    columns,        \* the default list of parameter `columns` of download_POI_around_coordinate,
                    \* one object for the life of the process
    pc, outcome

inputVars == <<args, model_name, caller, validation_df>>
evalVars == <<row_idx, real_price_ls, predicted_price_ls>>
paramVars == <<latitude, longitude, date, property_type, df_filter>>
sampleVars == <<start_date, end_date, bbox_size, transaction_df, calls, last_rows>>
featureVars == <<feature_bbox_size, dist_threshold, pois_map, df, observed_df, design, poi_calls, prefilter_df>>
vars == <<inputVars, evalVars, paramVars, sampleVars, featureVars, columns, pc, outcome>>

Unset == [k |-> "unset"]

\* the locals of a predict_price call before line 81 has run
FreshLocals ==
    /\ start_date = Unset /\ end_date = Unset /\ bbox_size = Unset
    /\ transaction_df = <<>> /\ calls = <<>> /\ last_rows = <<>>
    /\ feature_bbox_size = Unset /\ dist_threshold = Unset
    /\ pois_map = <<>> /\ df = <<>> /\ observed_df = <<>> /\ design = <<>>
    /\ poi_calls = <<>> /\ prefilter_df = <<>>

Init ==
    /\ args \in ArgsSet
    /\ model_name \in ModelNames
    /\ \/ /\ caller = "direct"
          /\ validation_df = <<>>
          /\ latitude = Point(0).y /\ longitude = Point(0).x /\ date = Date(100)
          /\ property_type \in {NoneV, Str("F")}
          /\ df_filter = NoneV
          /\ pc = "entry"
       \/ /\ caller = "evaluate"
          /\ validation_df \in {ValidationRows(s) : s \in ValidationSets}
          /\ latitude = Unset /\ longitude = Unset /\ date = Unset
          /\ property_type = Unset /\ df_filter = Unset
          /\ pc = "eval_iter"
    /\ row_idx = 1 /\ real_price_ls = <<>> /\ predicted_price_ls = <<>>
    /\ FreshLocals
    /\ columns = DefaultColumns
    /\ outcome = Unset

(* ---------------- predict_price ---------------- *)
\* lines 81-87: the date window and the initial bbox size
Enter(d) ==
    /\ start_date' = Date(d.day - (args.time_range \div 2))
    /\ end_date' = Date(d.day + (args.time_range \div 2))
    /\ bbox_size' = args.bbox_size_initial
    /\ UNCHANGED <<transaction_df, calls, last_rows, featureVars, outcome>>
    /\ pc' = "loop"

\* the locals of a finished call are gone once its caller goes on
DropLocals ==
    /\ start_date' = Unset /\ end_date' = Unset /\ bbox_size' = Unset
    /\ transaction_df' = <<>> /\ calls' = <<>> /\ last_rows' = <<>>
    /\ feature_bbox_size' = Unset /\ dist_threshold' = Unset
    /\ pois_map' = <<>> /\ df' = <<>> /\ observed_df' = <<>> /\ design' = <<>>
    /\ poi_calls' = <<>> /\ prefilter_df' = <<>>

\* a call of predict_price from user code, df_filter left at its default
predict_price ==
    /\ pc = "entry"
    /\ Enter(date)
    /\ UNCHANGED <<inputVars, columns, evalVars, paramVars>>

\* the positional call of lines 90-99
LoopQuery ==
    [start_date |-> start_date, end_date |-> end_date,
     latitude |-> latitude, longitude |-> longitude,
     box_width |-> bbox_size, box_height |-> bbox_size,
     property_type |-> property_type]

\* the filter compares the price column with the id
filter_out_validation_data_ByPrice(tdf, val_db_id) ==
    SelectSeq(tdf, LAMBDA r : r.price # val_db_id)

\* lines 154-163
filter_out_validation_data(tdf, val_db_id) ==
    SelectSeq(tdf, LAMBDA r : r.db_id # val_db_id)

\* lines 122-123
ApplyFilter(tdf) ==
    IF df_filter # NoneV THEN filter_out_validation_data(tdf, df_filter.val_db_id) ELSE tdf

\* the comparison of line 100 made with > instead of >=
SampleCount_OffByOne(res) == Len(res) - 1

\* the comparison of line 100 made after df_filter
SampleCount_Filtered(res) == Len(ApplyFilter(res))

\* the size comparison of line 100 is made on the rows the query returned
SampleCount(res) == Len(res)

\* line 101 without the assignment
GrowBbox_Stuck(b) == b

\* line 101
GrowBbox(b) == Mul(b, args.increase_factor)

\* line 102 with the limit taken after one more growth
Exhausted_Late(b) == Gt(b, Mul(args.bbox_size_limit, args.increase_factor))

\* line 102
Exhausted(b) == Gt(b, args.bbox_size_limit)

Raise(type) ==
    /\ outcome' = [k |-> "raise", type |-> type]
    /\ pc' = "ret"

Return(v) ==
    /\ outcome' = [k |-> "return", v |-> v]
    /\ pc' = "ret"

\* one pass of the while loop, lines 89-108
LoopIteration ==
    /\ pc = "loop"
    /\ Len(calls) < MaxIter
    /\ LET q == LoopQuery
           st == get_joined_transactions(q)
       IN IF st # "ok"
          THEN /\ calls' = Append(calls, [params |-> q, status |-> st, enough |-> FALSE, phase |-> "loop"])
               /\ Raise(st)
               /\ UNCHANGED <<bbox_size, transaction_df, last_rows>>
          ELSE \E res \in QueryResults(q.property_type) :
               /\ transaction_df' = res
               /\ last_rows' = res
               /\ calls' = Append(calls, [params |-> q, status |-> "ok", enough |-> Len(res) >= args.required_sample_size, phase |-> "loop"])
               /\ outcome' = outcome
               /\ IF SampleCount(res) < args.required_sample_size
                  THEN LET grown == GrowBbox(bbox_size)
                       IN /\ bbox_size' = grown
                          /\ pc' = IF Exhausted(grown) THEN "after_loop" ELSE "loop"
                  ELSE /\ bbox_size' = bbox_size
                       /\ pc' = "after_loop"
    /\ UNCHANGED <<inputVars, columns, evalVars, paramVars, start_date, end_date, featureVars>>


\* the positional call of lines 112-114: the seven arguments bind to
\* conn, start_date, end_date, latitude, longitude, box_width, box_height
FallbackQuery ==
    [start_date |-> latitude, end_date |-> longitude,
     latitude |-> bbox_size, longitude |-> bbox_size,
     box_width |-> start_date, box_height |-> end_date,
     property_type |-> NoneV]

\* lines 110-114: the retry over housing of all types
Fallback ==
    /\ pc = "after_loop"
    /\ IF SampleCount(transaction_df) < args.required_sample_size
       THEN LET q == FallbackQuery
                st == get_joined_transactions(q)
            IN IF st # "ok"
               THEN /\ calls' = Append(calls, [params |-> q, status |-> st, enough |-> FALSE, phase |-> "fallback"])
                    /\ Raise(st)
                    /\ UNCHANGED <<transaction_df, last_rows>>
               ELSE \E res \in QueryResults(q.property_type) :
                    /\ transaction_df' = res
                    /\ last_rows' = res
                    /\ calls' = Append(calls, [params |-> q, status |-> "ok", enough |-> Len(res) >= args.required_sample_size, phase |-> "fallback"])
                    /\ outcome' = outcome
                    /\ pc' = "sampled"
       ELSE /\ pc' = "sampled"
            /\ UNCHANGED <<transaction_df, calls, last_rows, outcome>>
    /\ UNCHANGED <<inputVars, columns, evalVars, paramVars, start_date, end_date, bbox_size, featureVars>>

\* line 126
FeatureBboxSize(s) == Times2(s)

\* line 127
DistThreshold(s) == Half(s)

NoSamples == Str("No samples in the training set")

\* lines 116-127: the empty check, the filter and the feature sizes
Prepare ==
    /\ pc = "sampled"
    /\ IF Len(transaction_df) = 0
       THEN /\ Return(NoSamples)
            /\ UNCHANGED <<transaction_df, feature_bbox_size, dist_threshold, prefilter_df>>
       ELSE /\ prefilter_df' = transaction_df
            /\ transaction_df' = ApplyFilter(transaction_df)
            /\ feature_bbox_size' = FeatureBboxSize(bbox_size)
            /\ dist_threshold' = DistThreshold(bbox_size)
            /\ outcome' = outcome
            /\ pc' = "download"
    /\ UNCHANGED <<inputVars, columns, evalVars, paramVars, start_date, end_date, bbox_size, calls,
                   last_rows, pois_map, df, observed_df, design, poi_calls>>

\* line 129
PriceColumns(tdf) ==
    [i \in 1..Len(tdf) |->
        [price |-> tdf[i].price, lattitude |-> tdf[i].lattitude, longitude |-> tdf[i].longitude]]

\* the keyword call of download_POI_around_coordinate for one feature
PoiQuery(lat, lon, w, h, f) ==
    [latitude |-> lat, longitude |-> lon, box_width |-> w, box_height |-> h, tags |-> f.tags]

\* download_POI_for_feature_list: one download per feature, in order
download_POI_for_feature_list(lat, lon, w, h, features) ==
    [j \in 1..Len(features) |-> PoiQuery(lat, lon, w, h, features[j])]

RECURSIVE ColumnsAfter(_, _, _)
\* the default column list once the downloads of features 1..j have run
ColumnsAfter(cols, features, j) ==
    IF j = 0 THEN cols
    ELSE AppendTags(ColumnsAfter(cols, features, j - 1), features[j].tags)

\* lines 129-132: the training columns and the POI downloads
Download ==
    /\ pc = "download"
    /\ df' = PriceColumns(transaction_df)
    /\ poi_calls' = download_POI_for_feature_list(latitude, longitude, bbox_size, bbox_size, args.features)
    /\ \E n \in 0..MaxPoi :      \* the geometries in the bbox; they match every tag
         pois_map' = [j \in 1..Len(args.features) |->
                        download_POI_around_coordinate(ColumnsAfter(columns, args.features, j - 1),
                                                       PoisOf(n), args.features[j].tags)]
    /\ columns' = ColumnsAfter(columns, args.features, Len(args.features))
    /\ pc' = "features"
    /\ UNCHANGED <<inputVars, evalVars, paramVars, sampleVars, feature_bbox_size, dist_threshold,
                   observed_df, design, prefilter_df, outcome>>

\* line 261; the name is kept as the pair it is joined from
column_name(feature_name, method_name) == <<feature_name, method_name>>

\* df[name] = v for one row: the column is replaced when there, else added last
SetColumn(cols, name, v) ==
    IF \E c \in DOMAIN cols : cols[c].name = name
    THEN [c \in DOMAIN cols |-> IF cols[c].name = name THEN [name |-> name, value |-> v] ELSE cols[c]]
    ELSE Append(cols, [name |-> name, value |-> v])

\* the outcome of df.apply: the first exception, else the values row by row
Applied(vals, tbl, name) ==
    LET bad == {i \in DOMAIN vals : vals[i].k = "raise"}
    IN  IF bad # {}
        THEN Raised(vals[CHOOSE i \in bad : \A j \in bad : i <= j].type)
        ELSE Returned([i \in DOMAIN tbl |->
                          [tbl[i] EXCEPT !.columns = SetColumn(@, name, vals[i].v)]])

\* every row gets the value computed from the row after it
calculate_single_feature_Shifted(tbl, method_name, threshold, poi, feature_name) ==
    Applied([i \in DOMAIN tbl |->
                LET r == tbl[(i % Len(tbl)) + 1].row
                IN  feature_fn(method_name, r.lattitude, r.longitude, poi, threshold)],
            tbl, column_name(feature_name, method_name))

\* lines 248-268
calculate_single_feature(tbl, method_name, threshold, poi, feature_name) ==
    Applied([i \in DOMAIN tbl |->
                feature_fn(method_name, tbl[i].row.lattitude, tbl[i].row.longitude, poi, threshold)],
            tbl, column_name(feature_name, method_name))

RECURSIVE CalcLoop(_, _, _, _, _, _)
\* lines 279-296 from method m of feature j on
CalcLoop(tbl, features, threshold, pmap, j, m) ==
    IF j > Len(features) THEN Returned(tbl)
    ELSE IF m > Len(features[j].methods) THEN CalcLoop(tbl, features, threshold, pmap, j + 1, 1)
    ELSE IF features[j].methods[m] \notin Methods THEN Raised("NotImplementedError")
    ELSE LET r == calculate_single_feature(tbl, features[j].methods[m], threshold,
                                           pmap[j], features[j].name)
         IN  IF r.k = "raise" THEN r
             ELSE CalcLoop(r.v, features, threshold, pmap, j, m + 1)

\* a data frame of the given records, no feature column yet
Frame(tbl) == [i \in DOMAIN tbl |-> [row |-> tbl[i], columns |-> <<>>]]

\* lines 271-297
calculate_features(tbl, features, threshold, pmap) ==
    CalcLoop(Frame(tbl), features, threshold, pmap, 1, 1)

\* lines 134, 140
AddOne(tbl) ==
    [i \in DOMAIN tbl |-> [tbl[i] EXCEPT !.columns = SetColumn(@, <<"one">>, Num(10, 1))]]

\* line 138
ObservedRow == <<[lattitude |-> latitude, longitude |-> longitude]>>

\* line 144: the values of the columns left after the drop
DesignMatrix(tbl) ==
    [i \in DOMAIN tbl |-> [c \in DOMAIN tbl[i].columns |-> tbl[i].columns[c].value]]

\* a first column is assigned from apply on a frame without rows
AssignsOnEmpty(tbl, features) ==
    /\ Len(tbl) = 0
    /\ \E j \in DOMAIN features :
         /\ Len(features[j].methods) > 0 /\ features[j].methods[1] \in Methods
         /\ \A i \in 1..(j - 1) : Len(features[i].methods) = 0

\* lines 133-144: feature tables of the sample and of the target, design matrix
CalculateFeatures ==
    /\ pc = "features"
    /\ LET r == calculate_features(df, args.features, dist_threshold, pois_map)
           o == calculate_features(ObservedRow, args.features, dist_threshold, pois_map)
       IN  \/ /\ AssignsOnEmpty(df, args.features)
              /\ Raise("ValueError")
              /\ UNCHANGED <<df, observed_df, design>>
           \/ /\ r.k = "raise"
              /\ Raise(r.type)
              /\ UNCHANGED <<df, observed_df, design>>
           \/ /\ r.k = "return"
              /\ df' = AddOne(r.v)
              /\ IF o.k = "raise"
                 THEN /\ Raise(o.type)
                      /\ UNCHANGED <<observed_df, design>>
                 ELSE /\ observed_df' = AddOne(o.v)
                      /\ design' = DesignMatrix(AddOne(r.v))
                      /\ outcome' = outcome
                      /\ pc' = "fit"
    /\ UNCHANGED <<inputVars, columns, evalVars, paramVars, sampleVars, feature_bbox_size,
                   dist_threshold, pois_map, poi_calls, prefilter_df>>

PredictedPrice == [k |-> "float"]

\* lines 146-151
Fit ==
    /\ pc = "fit"
    /\ IF model_name \in {"poisson", "gaussian"}
       THEN \/ Return(PredictedPrice)
            \/ /\ Len(design) = 0      \* a GLM fitted to no observations
               /\ Raise("ValueError")
       ELSE Raise("NotImplementedError")
    /\ UNCHANGED <<inputVars, columns, evalVars, paramVars, sampleVars, featureVars>>

(* ---------------- evaluate_model ---------------- *)
\* lines 177-191: the next validation row and its call of predict_price
evaluate_model_iter ==
    /\ pc = "eval_iter"
    /\ LET row == validation_df[row_idx]
       IN /\ latitude' = row.lattitude
          /\ longitude' = row.longitude
          /\ date' = row.date_of_transfer
          /\ property_type' = Str(row.property_type)
          /\ df_filter' = [k |-> "filter", val_db_id |-> row.db_id]
          /\ Enter(row.date_of_transfer)
    /\ UNCHANGED <<inputVars, columns, evalVars>>

\* lines 192-193, then the next row or line 194
evaluate_model_collect ==
    /\ pc = "ret" /\ caller = "evaluate" /\ outcome.k = "return"
    /\ real_price_ls' = Append(real_price_ls, validation_df[row_idx].price)
    /\ predicted_price_ls' = Append(predicted_price_ls, outcome.v)
    /\ row_idx' = row_idx + 1
    /\ pc' = IF row_idx = Len(validation_df) THEN "eval_done" ELSE "eval_iter"
    /\ DropLocals
    /\ outcome' = Unset
    /\ UNCHANGED <<inputVars, columns, paramVars>>

\* an exception of predict_price leaves evaluate_model at line 181
evaluate_model_raise ==
    /\ pc = "ret" /\ caller = "evaluate" /\ outcome.k = "raise"
    /\ pc' = "eval_raised"
    /\ DropLocals
    /\ UNCHANGED <<inputVars, columns, evalVars, paramVars, outcome>>

Next ==
    \/ predict_price
    \/ LoopIteration
    \/ Fallback
    \/ Prepare
    \/ Download
    \/ CalculateFeatures
    \/ Fit
    \/ evaluate_model_iter
    \/ evaluate_model_collect
    \/ evaluate_model_raise

Spec == Init /\ [][Next]_vars

\* the interpreter runs the loop statement it is at
FairSpec == Spec /\ WF_vars(LoopIteration)

(* ---------------- the feature functions called on their own ---------------- *)
\* thresholds below, at and above the distance between neighbouring points
FeatThresholds == {Num(5, 2), Num(5, 1), Num(15, 2)}

\* feature specs: every method alone, an unknown method, no feature, and
\* the two categories of the configuration above
FeatFeatureConfigs ==
    { <<[name |-> "school", tags |-> "amenity", methods |-> <<m>>]>> : m \in Methods \cup {"median"} }
    \cup { <<[name |-> "school", tags |-> "amenity", methods |-> <<"cnt", "avg_dist", "shortest_dist">>]>>,
           <<>> }
    \cup FeatureConfigs

\* the frames a caller may hold for one category
PoiFrames ==
    { [rows |-> r, columns |-> present_columns(DefaultColumns, r)] :
        r \in UNION { [1..n -> {PoiRecord(k) : k \in 0..MaxCoord}] : n \in 0..FeatMaxPoi } }

\* pois_map for a feature spec: any frame for the first category, a
\* downloaded one for the others
FeatPoisMaps(features) ==
    { pm \in [DOMAIN features -> PoiFrames] :
        \A j \in DOMAIN features : j > 1 => \E n \in 0..MaxPoi : pm[j].rows = PoisOf(n) }

\* user code holding a record list, a pois_map and a threshold, about to call
\* into assess.py
FeatInit ==
    /\ \E f \in FeatFeatureConfigs :
         args = [bbox_size_initial |-> Num(1, 1), bbox_size_limit |-> Num(1, 1),
                 increase_factor |-> Num(2, 1), required_sample_size |-> 0,
                 time_range |-> 7, features |-> f]
    /\ model_name = "gaussian" /\ caller = "features" /\ validation_df = <<>>
    /\ row_idx = 1 /\ real_price_ls = <<>> /\ predicted_price_ls = <<>>
    /\ \E k \in 0..MaxCoord : latitude = Point(k).y /\ longitude = Point(k).x
    /\ date = Unset /\ property_type = Unset /\ df_filter = Unset
    /\ start_date = Unset /\ end_date = Unset /\ bbox_size = Unset
    /\ transaction_df \in QueryResults(NoneV)
    /\ calls = <<>> /\ last_rows = <<>>
    /\ feature_bbox_size = Unset
    /\ dist_threshold \in FeatThresholds
    /\ pois_map \in FeatPoisMaps(args.features)
    /\ df = PriceColumns(transaction_df)
    /\ observed_df = <<>> /\ design = <<>>
    /\ poi_calls = <<>> /\ prefilter_df = <<>>
    /\ columns = DefaultColumns
    /\ pc = "features"
    /\ outcome = Unset

\* a call of one feature function on the first category of pois_map
CallFeature(result, at) ==
    /\ pc = "features" /\ caller = "features"
    /\ Len(pois_map) >= 1
    /\ outcome' = result
    /\ pc' = at
    /\ UNCHANGED <<inputVars, columns, evalVars, paramVars, sampleVars, featureVars>>

CntOfPOI ==
    CallFeature(get_cnt_of_POI(latitude, longitude, pois_map[1], dist_threshold), "cnt_ret")

AverageDistanceToPOI ==
    CallFeature(get_average_distance_to_POI(latitude, longitude, pois_map[1], dist_threshold), "avg_ret")

ShortestDistanceToPOI ==
    CallFeature(get_shortest_distance_to_POI(latitude, longitude, pois_map[1], dist_threshold),
                "shortest_ret")

FeatNext ==
    \/ CntOfPOI
    \/ AverageDistanceToPOI
    \/ ShortestDistanceToPOI
    \/ CalculateFeatures

FeatSpec == FeatInit /\ [][FeatNext]_vars


(* ======================= properties ======================= *)
Growth == Gt(args.increase_factor, Num(1, 1))
ValidConfig == Growth /\ ~Gt(args.bbox_size_initial, args.bbox_size_limit)

LoopCalls == {i \in 1..Len(calls) : calls[i].phase = "loop"}
FallbackCalls == {i \in 1..Len(calls) : calls[i].phase = "fallback"}
Required == args.required_sample_size

\* inside a predict_price call, after the while loop has been left
SamplingEnded == pc \in {"after_loop", "sampled", "download", "features", "fit", "ret"}
\* after lines 110-114 as well
PastFallback == pc \in {"sampled", "download", "features", "fit", "ret"}
\* after line 123
PastFilter == pc \in {"download", "features", "fit"} \/ (pc = "ret" /\ dist_threshold # Unset)

LastLoopCall == calls[CHOOSE i \in LoopCalls : \A j \in LoopCalls : j <= i]
LoopShortfall == LoopCalls # {} /\ ~LastLoopCall.enough

RECURSIVE CeilLogFrom(_, _)
\* least n with initial * factor^n >= ceiling, counting from b = initial * factor^n
CeilLogFrom(b, n) ==
    IF ~Gt(args.bbox_size_limit, b) THEN n
    ELSE CeilLogFrom(Mul(b, args.increase_factor), n + 1)

CeilLog == CeilLogFrom(args.bbox_size_initial, 0)

\* the loop has issued no more queries than the bound allows
WithinIterationBound == ValidConfig => Cardinality(LoopCalls) <= CeilLog + 1

\* the while loop of a valid configuration is running
InLoop == ValidConfig /\ pc = "loop"

\* C1: with growth factor > 1 and ceiling >= initial size, whatever the
\* transaction source returns, the sampling loop is left, and it issues at most
\* ceil(log_growth(ceiling / initial)) + 1 queries.
C1_LoopTerminatesWithinBound ==
    /\ []WithinIterationBound
    /\ (InLoop ~> SamplingEnded)

\* the loop ran out of bbox sizes having used exactly the bound
C1_Witness ==
    /\ ValidConfig /\ pc = "after_loop" /\ LoopShortfall
    /\ Cardinality(LoopCalls) = CeilLog + 1
    /\ Cardinality(LoopCalls) >= 3

\* C2: when the loop is exhausted below the required sample size and a property
\* type was given, exactly one further query reaches the transaction source:
\* no property-type filter, the centre and the date window of the loop queries,
\* and the bbox size the loop reached.
C2_FallbackQueryIsLoopQueryWithoutType ==
    (PastFallback /\ LoopShortfall /\ property_type # NoneV) =>
        /\ Cardinality(FallbackCalls) = 1
        /\ LET c == calls[Len(calls)]
           IN /\ c.phase = "fallback"
              /\ c.status = "ok"
              /\ c.params = [LoopQuery EXCEPT !.property_type = NoneV]

\* C3: a loop query that returns at least the required number of rows is the
\* last query of the call: its rows are the training sample and its bbox size
\* is the realized bbox size.
C3_SatisfiedStopsSampling ==
    \A i \in LoopCalls :
        calls[i].enough =>
            /\ i = Len(calls)
            /\ SamplingEnded
            /\ bbox_size = calls[i].params.box_width
            /\ (i = 1 => bbox_size = args.bbox_size_initial)
            /\ Len(last_rows) >= Required
            /\ IF PastFilter
               THEN prefilter_df = last_rows /\ transaction_df = ApplyFilter(last_rows)
               ELSE transaction_df = last_rows

\* the second query had enough rows and features were computed from them
C3_Witness ==
    /\ pc = "fit" /\ Len(calls) = 2 /\ Required = 2
    /\ calls[2].enough /\ Len(last_rows) = 2 /\ Len(df) = 2
    /\ bbox_size = calls[2].params.box_width

\* C4: a growth factor <= 1 is rejected at entry, before any transaction query.
C4_NoGrowthRejectedAtEntry ==
    ~Growth =>
        /\ calls = <<>>
        /\ (pc = "ret" => outcome = [k |-> "raise", type |-> "ConfigurationError"])

\* C5: an empty final transaction set makes predict_price fail with
\* InsufficientData, with no POI download, feature computation or fit.
C5_EmptySampleIsInsufficientData ==
    (pc = "ret" /\ calls # <<>> /\ calls[Len(calls)].status = "ok"
        /\ last_rows = <<>>) =>
        /\ outcome = [k |-> "raise", type |-> "InsufficientData"]
        /\ poi_calls = <<>> /\ df = <<>> /\ design = <<>>

\* a transaction set that df_filter has emptied
EmptiedByFilter == PastFilter /\ prefilter_df # <<>> /\ transaction_df = <<>>

\* C6: a transaction set that is empty after df_filter makes predict_price
\* fail with InsufficientData; no POIs are fetched and no model is fitted.
C6_EmptyAfterFilterIsInsufficientData ==
    EmptiedByFilter =>
        /\ pc = "ret"
        /\ outcome = [k |-> "raise", type |-> "InsufficientData"]
        /\ poi_calls = <<>>

\* C7: evaluate_model ends by returning actual and predicted sequences with one
\* entry per validation row, in input order, whichever predictions fail.
C7_BatchSurvivesFailures ==
    (caller = "evaluate" /\ pc \in {"eval_done", "eval_raised"}) =>
        /\ pc = "eval_done"
        /\ Len(real_price_ls) = Len(validation_df)
        /\ Len(predicted_price_ls) = Len(validation_df)
        /\ \A i \in 1..Len(validation_df) : real_price_ls[i] = validation_df[i].price

\* C8: in leave-one-out evaluation, when the sample holds the validation row,
\* the training rows are the sample without that row: one row fewer in the
\* feature table and the design matrix, the withheld id gone, the others kept.
C8_LeaveOneOutDropsExactlyTheRow ==
    (caller = "evaluate" /\ PastFilter /\ df_filter.val_db_id \in IdsOf(prefilter_df)) =>
        /\ Len(transaction_df) = Len(prefilter_df) - 1
        /\ IdsOf(transaction_df) = IdsOf(prefilter_df) \ {df_filter.val_db_id}
        /\ (pc \in {"features", "fit"} =>
                /\ Len(df) = Len(prefilter_df) - 1
                /\ \A i \in 1..Len(df) :
                      (IF pc = "fit" THEN df[i].row.price ELSE df[i].price)
                          # TransRecord(df_filter.val_db_id).price)
        /\ (pc = "fit" => Len(design) = Len(prefilter_df) - 1)

\* a two-row sample holding the validation row, one row in the design matrix
C8_Witness ==
    /\ caller = "evaluate" /\ pc = "fit"
    /\ Len(prefilter_df) = 2 /\ df_filter.val_db_id \in IdsOf(prefilter_df)
    /\ Len(design) = 1

RECURSIVE BboxAt(_)
\* the bbox size of the i-th loop query as the arguments alone determine it
BboxAt(i) == IF i = 1 THEN args.bbox_size_initial ELSE Mul(BboxAt(i - 1), args.increase_factor)

\* C9: sampling does not depend on df_filter: the queries and the stopping
\* decision are those determined by the arguments and the unfiltered row counts
\* of the results, and the filter is applied only once sampling has ended.
C9_FilterDoesNotInfluenceSampling ==
    (pc \in {"loop", "after_loop", "sampled", "download", "features", "fit", "ret"}) =>
        /\ \A i \in LoopCalls :
              /\ calls[i].params = [LoopQuery EXCEPT !.box_width = BboxAt(i), !.box_height = BboxAt(i)]
              /\ (i < Cardinality(LoopCalls) => ~calls[i].enough)
        /\ (SamplingEnded =>
              /\ LoopCalls # {}
              /\ IF ~LastLoopCall.enough
                 THEN bbox_size = BboxAt(Cardinality(LoopCalls) + 1)
                      /\ Gt(bbox_size, args.bbox_size_limit)
                 ELSE bbox_size = BboxAt(Cardinality(LoopCalls)))
        /\ (pc = "loop" => \A i \in LoopCalls : ~calls[i].enough)
        /\ (~PastFilter => prefilter_df = <<>>)
        /\ ((pc \in {"loop", "after_loop", "sampled"} /\ calls # <<>>) =>
                /\ transaction_df = last_rows
                /\ calls[Len(calls)].enough = (Len(last_rows) >= Required))

\* sampling stopped on a result that the filter would have made too small
C9_Witness ==
    /\ pc = "sampled" /\ df_filter # NoneV /\ df_filter # Unset
    /\ Required > 0 /\ Len(transaction_df) = Required
    /\ Len(ApplyFilter(transaction_df)) < Required

\* C10: with realized bbox size s, the distance threshold is s / 2 and every
\* POI download is made for a box of width and height 2 * s.
C10_FeatureBboxIsTwiceSamplingBbox ==
    (pc \in {"features", "fit"}) =>
        /\ Eq(dist_threshold, Half(bbox_size))
        /\ \A j \in 1..Len(poi_calls) :
              /\ Eq(poi_calls[j].box_width, Times2(bbox_size))
              /\ Eq(poi_calls[j].box_height, Times2(bbox_size))


\* C11: with a model family other than poisson and gaussian every call of
\* predict_price ends in the unsupported-model error (NotImplementedError),
\* whatever the transaction source returned.
C11_UnsupportedModelAlwaysFails ==
    (pc = "ret" /\ model_name \notin {"poisson", "gaussian"}) =>
        outcome = [k |-> "raise", type |-> "NotImplementedError"]

\* C17: when the loop ends short and the fallback query is short as well,
\* predict_price ends in InsufficientData carrying the number of rows found.
C17_ShortFallbackIsInsufficientData ==
    (pc = "ret" /\ LoopShortfall /\ property_type # NoneV) =>
        /\ FallbackCalls # {}
        /\ calls[Len(calls)].status = "ok"
        /\ (Len(last_rows) < Required =>
                outcome = [k |-> "raise", type |-> "InsufficientData", count |-> Len(last_rows)])

\* C18: without a property type, an exhausted loop is followed by no fallback
\* call; the rows of the last loop query are the training sample.
C18_NoFallbackWithoutPropertyType ==
    (PastFallback /\ LoopShortfall /\ property_type = NoneV) =>
        /\ FallbackCalls = {}
        /\ (pc = "sampled" => transaction_df = last_rows)
        /\ (PastFilter => prefilter_df = last_rows)

\* C19 as claimed: with growth factor > 1 and ceiling >= initial size, the bbox
\* size predict_price goes on with after sampling, fallback call included, is
\* at most the ceiling.
C19_RealizedBboxWithinCeiling ==
    (ValidConfig /\ PastFallback) => ~Gt(bbox_size, args.bbox_size_limit)

\* the loop has given up: the size it reached was never queried
LoopExhausted == PastFallback /\ LoopShortfall

\* C19 as amended: every loop query uses a bbox size of at most the ceiling;
\* the size reached when sampling ends is at most ceiling * growth factor, and
\* it is above the ceiling exactly when the loop was exhausted.
C19_BboxWithinOneGrowthOfCeiling ==
    ValidConfig =>
        /\ \A i \in LoopCalls : ~Gt(calls[i].params.box_width, args.bbox_size_limit)
        /\ (PastFallback =>
              /\ ~Gt(bbox_size, Mul(args.bbox_size_limit, args.increase_factor))
              /\ (Gt(bbox_size, args.bbox_size_limit) <=> LoopExhausted))

\* an exhausted loop has handed a size above the ceiling to the fallback call
C19_Witness ==
    /\ ValidConfig /\ pc = "ret" /\ LoopExhausted
    /\ Len(calls) >= 3 /\ calls[Len(calls)].phase = "fallback"
    /\ calls[Len(calls)].params.latitude = bbox_size
    /\ Gt(bbox_size, args.bbox_size_limit)


(* ---------------- properties of the feature functions ---------------- *)
\* the POI set the feature function was called with
CalledPois == pois_map[1].rows

DistanceTo(i) == Distance(latitude, longitude, CalledPois[i])

\* the POIs within the threshold
Within == {i \in DOMAIN CalledPois : ~Gt(DistanceTo(i), dist_threshold)}

\* the POIs closer than the threshold
Closer == {i \in DOMAIN CalledPois : Gt(dist_threshold, DistanceTo(i))}

FeatureReturned(at) == pc = at /\ outcome.k = "return"

\* C12: on an empty POI set the three feature methods return without raising:
\* count 0, shortest distance the threshold (in the kilometres the function
\* returns), average distance 0.
C12_EmptyPoiSetGivesDefinedValues ==
    (pc \in {"cnt_ret", "shortest_ret", "avg_ret"} /\ Len(CalledPois) = 0) =>
        /\ outcome.k = "return"
        /\ (pc = "cnt_ret" => Eq(outcome.v, Num(0, 1)))
        /\ (pc = "shortest_ret" => Eq(outcome.v, Times111(dist_threshold)))
        /\ (pc = "avg_ret" => Eq(outcome.v, Num(0, 1)))

\* C13 as claimed: the shortest-distance feature is >= 0 and <= the threshold
\* it was called with, and equals the threshold when no POI is closer.
C13_ShortestWithinThreshold ==
    pc = "shortest_ret" =>
        /\ outcome.k = "return"
        /\ Ge0(outcome.v)
        /\ ~Gt(outcome.v, dist_threshold)
        /\ (Closer = {} => Eq(outcome.v, dist_threshold))

\* C13 as amended: the value is in kilometres, 111 per degree: it is >= 0 and
\* <= 111 * threshold, equals 111 * threshold when no POI is closer than the
\* threshold, and is 111 * the distance of a nearest POI otherwise.
C13_ShortestWithinThresholdInKm ==
    pc = "shortest_ret" =>
        /\ outcome.k = "return"
        /\ Ge0(outcome.v)
        /\ ~Gt(outcome.v, Times111(dist_threshold))
        /\ (Closer = {} => Eq(outcome.v, Times111(dist_threshold)))
        /\ (Closer # {} =>
              \E i \in Closer :
                  /\ Eq(outcome.v, Times111(DistanceTo(i)))
                  /\ \A j \in DOMAIN CalledPois : ~Gt(DistanceTo(i), DistanceTo(j)))

\* two POIs, the nearest one away from the point and closer than the
\* threshold, the other one beyond the threshold
C13_Witness ==
    /\ FeatureReturned("shortest_ret")
    /\ Len(CalledPois) = 2 /\ Cardinality(Closer) = 1
    /\ \E i \in Closer : Gt(DistanceTo(i), Num(0, 1)) /\ Eq(outcome.v, Times111(DistanceTo(i)))
    /\ \E j \in DOMAIN CalledPois : Gt(DistanceTo(j), dist_threshold)

\* C14: the average-distance feature is the sum of the distances of the POIs
\* within the threshold divided by the number of POIs within the threshold
\* (in the kilometres the function returns), and 0 when there is none.
C14_AverageUsesFilteredCount ==
    pc = "avg_ret" =>
        /\ outcome.k = "return"
        /\ Eq(outcome.v,
              IF Within = {} THEN Num(0, 1)
              ELSE Times111(DivInt(AvgLoop(latitude, longitude, CalledPois, dist_threshold, 1, Num(0, 1)),
                                   Cardinality(Within))))

\* the value calculate_features owes row r for method m of feature j
FeatureValue(r, j, m) ==
    feature_fn(args.features[j].methods[m], r.lattitude, r.longitude, pois_map[j], dist_threshold).v

\* an output row carries its input record and the features of its coordinates
RowFor(out, src) ==
    /\ out.row = src
    /\ \A j \in DOMAIN args.features : \A m \in DOMAIN args.features[j].methods :
          \E c \in DOMAIN out.columns :
              /\ out.columns[c].name = <<args.features[j].name, args.features[j].methods[m]>>
              /\ out.columns[c].value = FeatureValue(src, j, m)

\* C15: calculate_features returns one row per input record, in input order:
\* row i carries the coordinates of record i and the features computed from
\* them; the same for the one-row table of the target location.
C15_FeatureTableIsRowForRow ==
    pc = "fit" =>
        /\ Len(df) = Len(transaction_df)
        /\ \A i \in DOMAIN df : RowFor(df[i], PriceColumns(transaction_df)[i])
        /\ Len(observed_df) = 1
        /\ RowFor(observed_df[1], ObservedRow[1])

\* two records whose features differ
C15_Witness ==
    /\ pc = "fit" /\ caller = "features"
    /\ Len(df) = 2 /\ Len(args.features) >= 1
    /\ \E c \in DOMAIN df[1].columns : df[1].columns[c].value # df[2].columns[c].value


\* the columns download j selects when only its own tags and the data
\* returned to it count
OwnColumns(j) ==
    present_columns(AppendTags(DefaultColumns, args.features[j].tags), pois_map[j].rows)

\* C16: the columns a POI download selects depend on its own tags and on the
\* data returned to it only, never on the tags of earlier downloads, of this
\* prediction or of an earlier one.
C16_DownloadsShareNoState ==
    \A j \in DOMAIN pois_map : pois_map[j].columns = OwnColumns(j)

====
